---- MODULE Spec2Model ----
(***************************************************************************)
(* The two ContainerSSH webhooks of envd-server                            *)
(* (pkg/server/containerssh.go): OnConfig answers "how is this connection  *)
(* routed" and OnPubKey answers "is this public key valid for this user".  *)
(* Strings are sequences of one-character strings, byte strings are        *)
(* sequences of small naturals.                                            *)
(***************************************************************************)
EXTENDS Integers, Sequences, FiniteSets, TLC

\* ------------------------------------------------------------------ bounds
NumReq == 2        \* requests that can be in flight at once
MaxNameLen == 3    \* longest username drawn as an input
MaxMatLen == 4     \* longest public-key text drawn as an input
MaxKeyLen == 2     \* longest stored public key, in bytes

Reqs == 1..NumReq

SeqsUpTo(S, n) == UNION {[1..k -> S] : k \in 0..n}

\* ------------------------------------------------------------ input alphabets
Delimiter == "#"
NameChars == {"a", "b", Delimiter}
Usernames == SeqsUpTo(NameChars, MaxNameLen)

\* " " separates fields, "a" is a base64 character (it decodes to byte 1),
\* "!" is a printable character outside the base64 alphabet.
MatChars == {" ", "a", "!"}
KeyMaterials == SeqsUpTo(MatChars, MaxMatLen)

KeyBytes == {1, 2}
StoredKeys == SeqsUpTo(KeyBytes, MaxKeyLen)

\* --------------------------------------------------- sshname.GetInfo (decode)
\* The segments of s between the delimiters, as strings.Split yields them.
RECURSIVE SplitFrom(_, _, _)
SplitFrom(s, i, cur) ==
    IF i > Len(s) THEN <<cur>>
    ELSE IF s[i] = Delimiter THEN <<cur>> \o SplitFrom(s, i + 1, <<>>)
    ELSE SplitFrom(s, i + 1, Append(cur, s[i]))

Split(s) == SplitFrom(s, 1, <<>>)

\* A decode that only counts the segments and lets an empty one through.
GetInfoAllowEmpty(username) ==
    LET parts == Split(username) IN
    IF Len(parts) = 2
    THEN [err |-> FALSE, owner |-> parts[1], name |-> parts[2]]
    ELSE [err |-> TRUE, owner |-> <<>>, name |-> <<>>]

\* decode: owner and target around exactly one delimiter, both non-empty.
GetInfo(username) ==
    LET parts == Split(username) IN
    IF Len(parts) = 2 /\ parts[1] # <<>> /\ parts[2] # <<>>
    THEN [err |-> FALSE, owner |-> parts[1], name |-> parts[2]]
    ELSE [err |-> TRUE, owner |-> <<>>, name |-> <<>>]

\* ------------------------------------------- ssh.ParseAuthorizedKey, Marshal
\* bytes.TrimSpace
RECURSIVE TrimLeft(_)
TrimLeft(s) == IF s # <<>> /\ Head(s) = " " THEN TrimLeft(Tail(s)) ELSE s

RECURSIVE TrimRight(_)
TrimRight(s) ==
    IF s # <<>> /\ s[Len(s)] = " " THEN TrimRight(SubSeq(s, 1, Len(s) - 1)) ELSE s

TrimSpace(s) == TrimRight(TrimLeft(s))

\* bytes.IndexAny(s, " \t"): index of the first space, 0 when there is none.
RECURSIVE IndexSpaceFrom(_, _)
IndexSpaceFrom(s, i) ==
    IF i > Len(s) THEN 0 ELSE IF s[i] = " " THEN i ELSE IndexSpaceFrom(s, i + 1)

IndexSpace(s) == IndexSpaceFrom(s, 1)

\* s from its i-th character on (Go's s[i-1:]).
From(s, i) == SubSeq(s, i, Len(s))

\* base64.StdEncoding.Decode of one field: a character outside the alphabet
\* is a CorruptInputError.
RECURSIVE Base64Decode(_)
Base64Decode(f) ==
    IF f = <<>> THEN [err |-> FALSE, bytes |-> <<>>]
    ELSE LET rest == Base64Decode(Tail(f)) IN
         IF Head(f) # "a" \/ rest.err THEN [err |-> TRUE, bytes |-> <<>>]
         ELSE [err |-> FALSE, bytes |-> <<1>> \o rest.bytes]

\* parseAuthorizedKey (unexported): the first field of the text is the base64
\* of the key's wire format; ParsePublicKey rejects an empty blob.  The key
\* is represented by the wire bytes PublicKey.Marshal() gives back.
ParseKeyField(in) ==
    LET t == TrimSpace(in)
        i == IndexSpace(t)
        field == IF i = 0 THEN t ELSE SubSeq(t, 1, i - 1)
        dec == Base64Decode(field)
    IN  IF dec.err \/ dec.bytes = <<>> THEN [err |-> TRUE, key |-> <<>>]
        ELSE [err |-> FALSE, key |-> dec.bytes]

\* ssh.ParseAuthorizedKey on a one-line text: skip the key-type field and
\* parse the next one; if that fails take the first field for options, skip
\* the key type after it and parse again; otherwise "ssh: no key found".
ParseAuthorizedKey(text) ==
    LET in == TrimSpace(text)
        i == IndexSpace(in)
        noKey == [err |-> TRUE, key |-> <<>>]
    IN  IF in = <<>> \/ i = 0 THEN noKey
        ELSE LET first == ParseKeyField(From(in, i)) IN
             IF ~first.err THEN first
             ELSE LET in2 == TrimLeft(From(in, i))
                      j == IndexSpace(in2)
                  IN  IF j = 0 THEN noKey
                      ELSE LET second == ParseKeyField(From(in2, j)) IN
                           IF ~second.err THEN second ELSE noKey

\* ------------------------------------------------ subtle.ConstantTimeCompare
RECURSIVE Xor(_, _)
Xor(a, b) ==
    IF a = 0 THEN b ELSE IF b = 0 THEN a
    ELSE (((a % 2) + (b % 2)) % 2) + 2 * Xor(a \div 2, b \div 2)

RECURSIVE Or(_, _)
Or(a, b) ==
    IF a = 0 THEN b ELSE IF b = 0 THEN a
    ELSE (IF (a % 2) + (b % 2) > 0 THEN 1 ELSE 0) + 2 * Or(a \div 2, b \div 2)

\* v |= x[i] ^ y[i] over all i
RECURSIVE XorFold(_, _, _, _)
XorFold(x, y, i, v) ==
    IF i > Len(x) THEN v ELSE XorFold(x, y, i + 1, Or(v, Xor(x[i], y[i])))

\* A comparison over the candidate's length only: a prefix of y matches.
ComparePrefix(x, y) ==
    IF Len(x) > Len(y) THEN 0
    ELSE IF XorFold(x, SubSeq(y, 1, Len(x)), 1, 0) = 0 THEN 1 ELSE 0

ConstantTimeCompare(x, y) ==
    IF Len(x) # Len(y) THEN 0
    ELSE IF XorFold(x, y, 1, 0) = 0 THEN 1 ELSE 0

\* ------------------------------------------------------------------- state
VARIABLES
    serverFingerPrints,   \* s.serverFingerPrints, set when the server is built
    users,                \* the rows of the user table behind s.Queries
    h                     \* h[r]: the handler goroutine serving request r

vars == <<serverFingerPrints, users, h>>

\* The request bodies.  A body that does not bind leaves the struct zeroed.
NoReq == [op |-> "none", binds |-> FALSE, username |-> <<>>, publicKey |-> <<>>]
ConfigRequest(username) ==
    [op |-> "config", binds |-> TRUE, username |-> username, publicKey |-> <<>>]
PubKeyRequest(username, text) ==
    [op |-> "pubkey", binds |-> TRUE, username |-> username, publicKey |-> text]
Unbound(op) == [NoReq EXCEPT !.op = op]

\* What c.JSON(code, obj) writes.
Response(code, obj) == [status |-> code, body |-> obj]
ErrBody(e) == [kind |-> "error", error |-> e]
TextBody(t) == [kind |-> "text", text |-> t]
ConfigBody(cfg) == [kind |-> "config", config |-> cfg]
AuthBody(ok) == [kind |-> "auth", success |-> ok]

\* A handler that has not started: no locals, nothing written.
\*   owner, name : the results of sshname.GetInfo
\*   user        : user.PublicKey of the row GetUser returned
\*   lookup      : how GetUser ended ("none" before the call)
\*   queries     : the owners this request has passed to GetUser, in order
\*   parsed      : ssh.ParseAuthorizedKey has been called
\*   resps       : the responses written with c.JSON, in order
Idle ==
    [pc |-> "idle", req |-> NoReq, owner |-> <<>>, name |-> <<>>, user |-> <<>>,
     lookup |-> "none", queries |-> <<>>, parsed |-> FALSE, resps |-> <<>>]

\* c.JSON(code, obj); return
Reply(g, code, obj) ==
    [g EXCEPT !.pc = "done", !.resps = Append(g.resps, Response(code, obj))]

\* ----------------------------------------------------------------- OnConfig
AppConfig(name, fingerprints) ==
    [Backend |-> "sshproxy",
     SSHProxy |-> [Server |-> name, Port |-> 2222, Username |-> "envd",
                   AllowedHostKeyFingerprints |-> fingerprints]]

\* OnConfig taking GetInfo's first result, the owner, for the server name.
OnConfigBeginOwner(r, req) ==
    /\ h[r].pc \in {"idle", "done"}
    /\ req.op = "config"
    /\ LET g == [Idle EXCEPT !.req = req]
           info == GetInfo(req.username)
       IN  h' = [h EXCEPT ![r] =
                 IF ~req.binds THEN Reply(g, 400, ErrBody("BindError"))
                 ELSE IF info.err THEN Reply(g, 500, ErrBody("MalformedIdentity"))
                 ELSE [g EXCEPT !.pc = "config", !.name = info.owner]]
    /\ UNCHANGED <<serverFingerPrints, users>>

\* BindJSON and sshname.GetInfo.  BindJSON answers a body that does not bind
\* with status 400 itself; the later c.JSON(500, err) only adds the body.
OnConfigBegin(r, req) ==
    /\ h[r].pc \in {"idle", "done"}
    /\ req.op = "config"
    /\ LET g == [Idle EXCEPT !.req = req]
           info == GetInfo(req.username)
       IN  h' = [h EXCEPT ![r] =
                 IF ~req.binds THEN Reply(g, 400, ErrBody("BindError"))
                 ELSE IF info.err THEN Reply(g, 500, ErrBody("MalformedIdentity"))
                 ELSE [g EXCEPT !.pc = "config", !.name = info.name]]
    /\ UNCHANGED <<serverFingerPrints, users>>

\* OnConfig answering without the fingerprints (line 53 left out).
OnConfigRespondBare(r) ==
    /\ h[r].pc = "config"
    /\ h' = [h EXCEPT ![r] =
             Reply(h[r], 200, ConfigBody(AppConfig(h[r].name, <<>>)))]
    /\ UNCHANGED <<serverFingerPrints, users>>

\* OnConfig taking the fingerprint it hands out off the shared list.
OnConfigRespondConsume(r) ==
    /\ h[r].pc = "config"
    /\ h' = [h EXCEPT ![r] =
             Reply(h[r], 200, ConfigBody(AppConfig(h[r].name, serverFingerPrints)))]
    /\ serverFingerPrints' =
           IF serverFingerPrints = <<>> THEN <<>> ELSE Tail(serverFingerPrints)
    /\ UNCHANGED users

\* Build the AppConfig around s.serverFingerPrints and answer 200.
OnConfigRespond(r) ==
    /\ h[r].pc = "config"
    /\ h' = [h EXCEPT ![r] =
             Reply(h[r], 200, ConfigBody(AppConfig(h[r].name, serverFingerPrints)))]
    /\ UNCHANGED <<serverFingerPrints, users>>

\* ----------------------------------------------------------------- OnPubKey
\* OnPubKey parsing the candidate key before it looks the owner up.
OnPubKeyBeginParseFirst(r, req) ==
    /\ h[r].pc \in {"idle", "done"}
    /\ req.op = "pubkey"
    /\ LET g == [Idle EXCEPT !.req = req]
           info == GetInfo(req.username)
           key == ParseAuthorizedKey(req.publicKey)
       IN  h' = [h EXCEPT ![r] =
                 IF ~req.binds THEN Reply(g, 400, ErrBody("BindError"))
                 ELSE IF info.err THEN Reply(g, 500, ErrBody("MalformedIdentity"))
                 ELSE IF key.err
                 THEN Reply([g EXCEPT !.parsed = TRUE], 500, ErrBody("KeyParseError"))
                 ELSE [g EXCEPT !.pc = "lookup", !.owner = info.owner, !.parsed = TRUE]]
    /\ UNCHANGED <<serverFingerPrints, users>>

OnPubKeyBegin(r, req) ==
    /\ h[r].pc \in {"idle", "done"}
    /\ req.op = "pubkey"
    /\ LET g == [Idle EXCEPT !.req = req]
           info == GetInfo(req.username)
       IN  h' = [h EXCEPT ![r] =
                 IF ~req.binds THEN Reply(g, 400, ErrBody("BindError"))
                 ELSE IF info.err THEN Reply(g, 500, ErrBody("MalformedIdentity"))
                 ELSE [g EXCEPT !.pc = "lookup", !.owner = info.owner]]
    /\ UNCHANGED <<serverFingerPrints, users>>

\* OnPubKey answering a missing row with a negative verdict.
OnPubKeyGetUserDeny(r, up) ==
    /\ h[r].pc = "lookup"
    /\ LET g == [h[r] EXCEPT !.queries = Append(@, h[r].owner)]
           rows == {u \in users : u.owner = h[r].owner}
       IN  h' = [h EXCEPT ![r] =
                 IF ~up
                 THEN Reply([g EXCEPT !.lookup = "error"], 500, TextBody("Internal error"))
                 ELSE IF rows = {}
                 THEN Reply([g EXCEPT !.lookup = "norows"], 200, AuthBody(FALSE))
                 ELSE [g EXCEPT !.pc = "verify", !.lookup = "row",
                                !.user = (CHOOSE u \in rows : TRUE).key]]
    /\ UNCHANGED <<serverFingerPrints, users>>

\* OnPubKey querying a second time when the first query fails.
OnPubKeyGetUserRetry(r, up) ==
    /\ h[r].pc = "lookup"
    /\ LET g == [h[r] EXCEPT !.queries =
                     IF up THEN Append(@, h[r].owner)
                     ELSE Append(Append(@, h[r].owner), h[r].owner)]
           rows == {u \in users : u.owner = h[r].owner}
       IN  h' = [h EXCEPT ![r] =
                 IF rows = {}
                 THEN Reply([g EXCEPT !.lookup = "norows"], 500, TextBody("user not found"))
                 ELSE [g EXCEPT !.pc = "verify", !.lookup = "row",
                                !.user = (CHOOSE u \in rows : TRUE).key]]
    /\ UNCHANGED <<serverFingerPrints, users>>

\* s.Queries.GetUser(ctx, owner) and the handling of its error.  The query
\* either reaches the table (up) or fails for another reason.
OnPubKeyGetUser(r, up) ==
    /\ h[r].pc = "lookup"
    /\ LET g == [h[r] EXCEPT !.queries = Append(@, h[r].owner)]
           rows == {u \in users : u.owner = h[r].owner}
       IN  h' = [h EXCEPT ![r] =
                 IF ~up
                 THEN Reply([g EXCEPT !.lookup = "error"], 500, TextBody("Internal error"))
                 ELSE IF rows = {}
                 THEN Reply([g EXCEPT !.lookup = "norows"], 500, TextBody("user not found"))
                 ELSE [g EXCEPT !.pc = "verify", !.lookup = "row",
                                !.user = (CHOOSE u \in rows : TRUE).key]]
    /\ UNCHANGED <<serverFingerPrints, users>>

\* OnPubKey without the return after the positive verdict (line 105).
OnPubKeyVerifyFallThrough(r) ==
    /\ h[r].pc = "verify"
    /\ LET g == [h[r] EXCEPT !.parsed = TRUE]
           key == ParseAuthorizedKey(h[r].req.publicKey)
       IN  h' = [h EXCEPT ![r] =
                 IF key.err THEN Reply(g, 500, ErrBody("KeyParseError"))
                 ELSE IF ConstantTimeCompare(key.key, h[r].user) = 1
                 THEN Reply(Reply(g, 200, AuthBody(TRUE)), 200, AuthBody(FALSE))
                 ELSE Reply(g, 200, AuthBody(FALSE))]
    /\ UNCHANGED <<serverFingerPrints, users>>

\* ssh.ParseAuthorizedKey, subtle.ConstantTimeCompare and the verdict.
OnPubKeyVerify(r) ==
    /\ h[r].pc = "verify"
    /\ LET g == [h[r] EXCEPT !.parsed = TRUE]
           key == ParseAuthorizedKey(h[r].req.publicKey)
       IN  h' = [h EXCEPT ![r] =
                 IF key.err THEN Reply(g, 500, ErrBody("KeyParseError"))
                 ELSE IF ConstantTimeCompare(key.key, h[r].user) = 1
                 THEN Reply(g, 200, AuthBody(TRUE))
                 ELSE Reply(g, 200, AuthBody(FALSE))]
    /\ UNCHANGED <<serverFingerPrints, users>>

\* ------------------------------------------------------------------- inputs
SampleUsernames == {<<"a", "#", "b">>, <<"b", "#", "a">>, <<"a", "b">>}
SampleMaterials == {<<"!", " ", "a">>, <<"a", " ", "a", "a">>, <<"!", "a">>}
SampleFingerPrints == {<<"SHA256:h1">>, <<"SHA256:h1", "SHA256:h2">>}

Row(owner, key) == [owner |-> owner, key |-> key]
SampleStores == { {Row(<<"a">>, <<1>>)}, {Row(<<"a">>, <<1, 1>>)} }

\* Every owner a username of the input set can name.
Owners == {GetInfo(u).owner : u \in {v \in Usernames : ~GetInfo(v).err}}
\* The tables with at most one row.
Stores == {{}} \cup {{Row(o, k)} : o \in Owners, k \in StoredKeys}

ConcRequests ==
    {Unbound("config"), Unbound("pubkey")}
    \cup {ConfigRequest(u) : u \in SampleUsernames}
    \cup {PubKeyRequest(u, t) : u \in SampleUsernames, t \in SampleMaterials}

SeqRequests ==
    {Unbound("config"), Unbound("pubkey")}
    \cup {ConfigRequest(u) : u \in Usernames}
    \cup {PubKeyRequest(u, t) : u \in Usernames, t \in SampleMaterials}
    \cup {PubKeyRequest(u, t) : u \in SampleUsernames, t \in KeyMaterials}

\* ---------------------------------------------------------- specifications
\* Requests served concurrently, one goroutine each.
Init ==
    /\ serverFingerPrints \in SampleFingerPrints
    /\ users \in SampleStores
    /\ h = [r \in Reqs |-> Idle]

Next ==
    \E r \in Reqs :
        \/ \E req \in ConcRequests : OnConfigBegin(r, req)
        \/ OnConfigRespond(r)
        \/ \E req \in ConcRequests : OnPubKeyBegin(r, req)
        \/ \E up \in BOOLEAN : OnPubKeyGetUser(r, up)
        \/ OnPubKeyVerify(r)

Spec == Init /\ [][Next]_vars

\* One request, over all the usernames, key texts and tables.
InitSeq ==
    /\ serverFingerPrints \in SampleFingerPrints
    /\ users \in Stores
    /\ h = [r \in Reqs |-> Idle]

NextSeq ==
    \/ h[1].pc = "idle" /\ \E req \in SeqRequests : OnConfigBegin(1, req)
    \/ OnConfigRespond(1)
    \/ h[1].pc = "idle" /\ \E req \in SeqRequests : OnPubKeyBegin(1, req)
    \/ \E up \in BOOLEAN : OnPubKeyGetUser(1, up)
    \/ OnPubKeyVerify(1)

SpecSeq == InitSeq /\ [][NextSeq]_vars

\* --------------------------------------------------------------- properties
\* The grammar of a username, stated on the string itself: exactly one
\* delimiter, with something on either side of it.
DelimiterAt(u) == {i \in 1..Len(u) : u[i] = Delimiter}
WellFormed(u) ==
    /\ Cardinality(DelimiterAt(u)) = 1
    /\ \A i \in DelimiterAt(u) : 1 < i /\ i < Len(u)
OwnerOf(u) == SubSeq(u, 1, (CHOOSE i \in DelimiterAt(u) : TRUE) - 1)
TargetOf(u) == SubSeq(u, (CHOOSE i \in DelimiterAt(u) : TRUE) + 1, Len(u))

\* The rows the table holds for the owner a username names.
RowsOf(u) == {row \in users : row.owner = OwnerOf(u)}

\* The handlers that have answered a request whose body bound.
Served(op) == {r \in Reqs : h[r].pc = "done" /\ h[r].req.op = op /\ h[r].req.binds}
Answer(r) == h[r].resps[1]
IsPrefix(x, y) == Len(x) <= Len(y) /\ SubSeq(y, 1, Len(x)) = x

\* C1: when the username decodes, the owner has a row and the key text
\* parses, verify answers success=true exactly when the parsed key's wire
\* bytes are the stored bytes, byte for byte and of the same length.
C1_VerdictIffExactlyEqual ==
    \A r \in Served("pubkey") :
        LET u == h[r].req.username
            key == ParseAuthorizedKey(h[r].req.publicKey)
        IN  (WellFormed(u) /\ h[r].lookup = "row" /\ ~key.err) =>
                \A row \in RowsOf(u) :
                    h[r].resps = <<Response(200, AuthBody(key.key = row.key))>>

\* A candidate that is a proper prefix of the stored key was turned down.
C1_Witness ==
    \E r \in Served("pubkey") :
        LET u == h[r].req.username
            key == ParseAuthorizedKey(h[r].req.publicKey)
        IN  /\ WellFormed(u) /\ h[r].lookup = "row" /\ ~key.err
            /\ \E row \in RowsOf(u) : IsPrefix(key.key, row.key) /\ key.key # row.key
            /\ h[r].resps = <<Response(200, AuthBody(FALSE))>>

\* C2: a malformed username, a missing user, an unparsable key and a failed
\* query are each answered with an error, never with a verdict; success=false
\* is answered only after decode, lookup and parse succeeded and the bytes
\* differ.
C2_ErrorsAreNotVerdicts ==
    \A r \in Served("pubkey") :
        LET u == h[r].req.username
            key == ParseAuthorizedKey(h[r].req.publicKey)
            malformed == ~WellFormed(u)
            notFound == WellFormed(u) /\ h[r].lookup # "error" /\ RowsOf(u) = {}
            storeError == h[r].lookup = "error"
            parseError == WellFormed(u) /\ h[r].lookup = "row" /\ key.err
        IN  /\ (malformed \/ notFound \/ storeError \/ parseError) =>
                   /\ Answer(r).status = 500
                   /\ Answer(r).body.kind \in {"error", "text"}
            /\ Answer(r).body = AuthBody(FALSE) =>
                   /\ WellFormed(u) /\ h[r].lookup = "row" /\ ~key.err
                   /\ \A row \in RowsOf(u) : key.key # row.key
                   /\ RowsOf(u) # {}

\* A request for an owner without a row was answered with an error.
C2_Witness ==
    \E r \in Served("pubkey") :
        /\ WellFormed(h[r].req.username)
        /\ RowsOf(h[r].req.username) = {}
        /\ h[r].lookup = "norows"
        /\ Answer(r).status = 500

\* C3: for a username that decodes, resolve answers with the proxy backend,
\* the target as server, port 2222 and proxy user "envd", whoever the owner
\* is and whether or not they have a row; for one that does not decode it
\* answers MalformedIdentity and no configuration.
C3_RouteFromTarget ==
    \A r \in Served("config") :
        LET u == h[r].req.username IN
        IF WellFormed(u)
        THEN /\ Len(h[r].resps) = 1
             /\ Answer(r).status = 200
             /\ Answer(r).body.kind = "config"
             /\ Answer(r).body.config.Backend = "sshproxy"
             /\ Answer(r).body.config.SSHProxy.Server = TargetOf(u)
             /\ Answer(r).body.config.SSHProxy.Port = 2222
             /\ Answer(r).body.config.SSHProxy.Username = "envd"
        ELSE h[r].resps = <<Response(500, ErrBody("MalformedIdentity"))>>

\* A route was answered for an owner that has no row, to a target that is
\* not the owner's name.
C3_Witness ==
    \E r \in Served("config") :
        LET u == h[r].req.username IN
        /\ WellFormed(u) /\ RowsOf(u) = {} /\ users # {}
        /\ OwnerOf(u) # TargetOf(u)
        /\ Answer(r).status = 200

\* C4: no step of any request changes the process-wide fingerprints, and
\* every route answered carries exactly that list.
C4_FingerprintsFrozen ==
    /\ [][serverFingerPrints' = serverFingerPrints]_vars
    /\ [](\A r \in Served("config") :
             Answer(r).status = 200 =>
                 Answer(r).body.config.SSHProxy.AllowedHostKeyFingerprints
                     = serverFingerPrints)

\* A route has been answered while a verify request is between its lookup
\* and its comparison.
C4_Witness ==
    \E r1, r2 \in Reqs :
        /\ r1 \in Served("config") /\ Answer(r1).status = 200
        /\ Answer(r1).body.config.SSHProxy.AllowedHostKeyFingerprints # <<>>
        /\ h[r2].pc = "verify"

\* C5: two resolve calls with the same username are answered alike, whatever
\* ran between them.
C5_ResolveIdempotent ==
    \A r1, r2 \in Served("config") :
        h[r1].req.username = h[r2].req.username => h[r1].resps = h[r2].resps

\* Two calls with the same username have both been answered with a route.
C5_Witness ==
    \E r1, r2 \in Served("config") :
        /\ r1 # r2
        /\ h[r1].req.username = h[r2].req.username
        /\ Answer(r1).status = 200 /\ Answer(r2).status = 200

\* C6: a username owner#target reaches resolve as that target and verify as
\* that owner; any other username (no delimiter, several, or an empty
\* segment) ends both with MalformedIdentity.
C6_DecodeExact ==
    \A r \in Reqs :
        LET u == h[r].req.username IN
        (h[r].pc # "idle" /\ h[r].req.binds) =>
            IF WellFormed(u)
            THEN /\ h[r].resps # <<Response(500, ErrBody("MalformedIdentity"))>>
                 /\ h[r].req.op = "config" => h[r].name = TargetOf(u)
                 /\ h[r].req.op = "pubkey" => h[r].owner = OwnerOf(u)
                 /\ h[r].queries # <<>> => h[r].queries[1] = OwnerOf(u)
            ELSE /\ h[r].pc = "done"
                 /\ h[r].resps = <<Response(500, ErrBody("MalformedIdentity"))>>

\* A verify request whose username has its one delimiter at the end was
\* turned down.
C6_Witness ==
    \E r \in Served("pubkey") :
        LET u == h[r].req.username IN
        /\ Cardinality(DelimiterAt(u)) = 1 /\ u[Len(u)] = Delimiter /\ Len(u) > 1
        /\ h[r].resps = <<Response(500, ErrBody("MalformedIdentity"))>>

\* C8: a verify call queries the user store at most once, a failed query
\* ends the call with an error, and resolve never queries it.
C8_NoRetry ==
    \A r \in Reqs :
        /\ Len(h[r].queries) <= 1
        /\ h[r].req.op = "config" => h[r].queries = <<>>
        /\ h[r].lookup \in {"error", "norows"} =>
               /\ h[r].pc = "done"
               /\ Len(h[r].queries) = 1
               /\ Len(h[r].resps) = 1
               /\ Answer(r).status = 500

\* A query failed and the call ended after that one query.
C8_Witness ==
    \E r \in Served("pubkey") : h[r].lookup = "error" /\ Len(h[r].queries) = 1

\* C9: verify decodes, then looks up, then parses, then compares, and stops
\* at the first failure: no query for a malformed username, no parse unless
\* the lookup found a row; an unknown owner is "user not found" even with an
\* unparsable key, and a failed query is "Internal error".
C9_StepOrder ==
    \A r \in Reqs :
        LET u == h[r].req.username
            key == ParseAuthorizedKey(h[r].req.publicKey)
        IN  (h[r].req.op = "pubkey" /\ h[r].req.binds) =>
            /\ ~WellFormed(u) => h[r].queries = <<>> /\ ~h[r].parsed
            /\ h[r].lookup # "row" => ~h[r].parsed
            /\ h[r].parsed => Len(h[r].queries) = 1
            /\ (h[r].pc = "done" /\ WellFormed(u)) =>
                   /\ h[r].lookup # "none"
                   /\ h[r].lookup = "norows" =>
                          h[r].resps = <<Response(500, TextBody("user not found"))>>
                   /\ h[r].lookup = "error" =>
                          h[r].resps = <<Response(500, TextBody("Internal error"))>>
                   /\ (h[r].lookup = "row" /\ key.err) =>
                          h[r].resps = <<Response(500, ErrBody("KeyParseError"))>>
                   /\ h[r].lookup = "row" => h[r].parsed

\* An unknown owner with an unparsable key was answered "user not found".
C9_Witness ==
    \E r \in Served("pubkey") :
        /\ WellFormed(h[r].req.username)
        /\ RowsOf(h[r].req.username) = {}
        /\ ParseAuthorizedKey(h[r].req.publicKey).err
        /\ h[r].resps = <<Response(500, TextBody("user not found"))>>

\* C10: a request whose body bound gets exactly one response, written when
\* the handler ends; it has status 200 exactly when it carries a route or a
\* verdict, and status 500 with neither otherwise.
C10_OneResponse ==
    \A r \in Reqs :
        h[r].req.binds =>
            /\ h[r].pc = "done" => Len(h[r].resps) = 1
            /\ h[r].pc # "done" => h[r].resps = <<>>
            /\ \A i \in 1..Len(h[r].resps) :
                   LET a == h[r].resps[i] IN
                   /\ a.status \in {200, 500}
                   /\ a.status = 200 <=>
                          \/ h[r].req.op = "config" /\ a.body.kind = "config"
                          \/ h[r].req.op = "pubkey" /\ a.body.kind = "auth"
                   /\ a.status = 500 <=> a.body.kind \in {"error", "text"}

\* One request was answered with a positive verdict and another with an error.
C10_Witness ==
    \E r1, r2 \in Served("pubkey") :
        /\ Answer(r1) = Response(200, AuthBody(TRUE))
        /\ Answer(r2).status = 500

====
